---- MODULE Spec2Model ----
(***************************************************************************)
(* Model of src/src/App.jsx: the agent stream consumer (AgentBox:          *)
(* startAgent / stopAgent) and the upload pipeline (App.handleFiles).      *)
(*                                                                         *)
(* Text is a sequence of symbols.  A symbol is either a single character   *)
(* ("\n", " "), a raw byte of a two-byte UTF-8 character, or a fixed run   *)
(* of characters that the code only ever looks at as a whole ("data:",     *)
(* "[DONE]", the text of a JSON value).  Chunk boundaries fall between     *)
(* symbols.                                                                *)
(***************************************************************************)
EXTENDS Integers, Sequences, FiniteSets

(***************************************************************************)
(* Bounds of the model.                                                    *)
(***************************************************************************)
MaxFrames == 3
MaxFiles == 4
MaxResults == 3

(***************************************************************************)
(* The symbols of the wire.                                                *)
(***************************************************************************)
NL == "\n"
SP == " "
MARK == "data:"
SENTINEL == "[DONE]"
LEAD == "0xC3"
CONT == "0xA9"
EACUTE == "U+00E9"
REPLACEMENT == "U+FFFD"
STATUS_A == "{\"type\":\"status\",\"value\":\"h"
STATUS_B == "\"}"
FINAL_TXT == "{\"type\":\"final\",\"answer\":\"ok\"}"
BAD_TXT == "{\"type\":\"status\","
COMMENT == ": ping"
EVENT_LINE == "event: message"

White == {NL, SP}

(***************************************************************************)
(* Events.                                                                 *)
(***************************************************************************)
DoneEvent == [type |-> "done"]
StatusEvent == [type |-> "status", value |-> <<"h", EACUTE>>]
FinalEvent == [type |-> "final", answer |-> "ok"]
ErrorEvent(message) == [type |-> "error", value |-> message]
StartFailedMessage == "Failed to start stream"
NetworkMessage == "Failed to fetch"
AbortMessage == "The user aborted a request."

(***************************************************************************)
(* Sequence helpers.                                                       *)
(***************************************************************************)
Front(s) == SubSeq(s, 1, Len(s) - 1)
Last(s) == s[Len(s)]
Drop(s, n) == SubSeq(s, n + 1, Len(s))

(***************************************************************************)
(* decoder.decode(value, {stream: true}): a lead byte with no continuation *)
(* byte yet is held back; a byte sequence that is not UTF-8 decodes to     *)
(* U+FFFD.                                                                 *)
(***************************************************************************)
RECURSIVE DecodeText(_, _)
DecodeText(held, bytes) ==
    IF bytes = <<>> THEN <<>>
    ELSE LET b == Head(bytes) IN
         IF held = <<>>
         THEN IF b = LEAD THEN DecodeText(<<LEAD>>, Tail(bytes))
              ELSE IF b = CONT THEN <<REPLACEMENT>> \o DecodeText(<<>>, Tail(bytes))
              ELSE <<b>> \o DecodeText(<<>>, Tail(bytes))
         ELSE IF b = CONT THEN <<EACUTE>> \o DecodeText(<<>>, Tail(bytes))
              ELSE <<REPLACEMENT>> \o DecodeText(<<>>, bytes)

RECURSIVE DecodeHeld(_, _)
DecodeHeld(held, bytes) ==
    IF bytes = <<>> THEN held
    ELSE IF held = <<>> /\ Head(bytes) = LEAD THEN DecodeHeld(<<LEAD>>, Tail(bytes))
    ELSE IF held # <<>> /\ Head(bytes) # CONT THEN DecodeHeld(<<>>, bytes)
    ELSE DecodeHeld(<<>>, Tail(bytes))

\* decode without {stream: true}: nothing is held back between chunks.
decodeWithoutStream(held, bytes) ==
    [text |-> DecodeText(<<>>, bytes)
              \o (IF DecodeHeld(<<>>, bytes) = <<>> THEN <<>> ELSE <<REPLACEMENT>>),
     held |-> <<>>]

decode(held, bytes) ==
    [text |-> DecodeText(held, bytes), held |-> DecodeHeld(held, bytes)]

(***************************************************************************)
(* String.prototype.split(sep): the pieces between the leftmost            *)
(* non-overlapping occurrences of sep; always at least one piece.          *)
(***************************************************************************)
StartsWith(text, prefix) ==
    /\ Len(text) >= Len(prefix)
    /\ SubSeq(text, 1, Len(prefix)) = prefix

\* from: where the current piece begins; at: where sep is looked for next.
RECURSIVE SplitFrom(_, _, _, _)
SplitFrom(text, sep, from, at) ==
    IF at + Len(sep) - 1 > Len(text) THEN <<SubSeq(text, from, Len(text))>>
    ELSE IF SubSeq(text, at, at + Len(sep) - 1) = sep
         THEN <<SubSeq(text, from, at - 1)>>
              \o SplitFrom(text, sep, at + Len(sep), at + Len(sep))
         ELSE SplitFrom(text, sep, from, at + 1)

split(text, sep) == SplitFrom(text, sep, 1, 1)

(***************************************************************************)
(* String.prototype.trim().                                                *)
(***************************************************************************)
RECURSIVE trimStart(_)
trimStart(text) ==
    IF text # <<>> /\ Head(text) \in White THEN trimStart(Tail(text)) ELSE text

RECURSIVE trimEnd(_)
trimEnd(text) ==
    IF text # <<>> /\ Last(text) \in White THEN trimEnd(Front(text)) ELSE text

trim(text) == trimEnd(trimStart(text))

(***************************************************************************)
(* chunk.trim().split('\n').find(l => l.startsWith('data:')): the first    *)
(* line that starts with the marker, NoLine (undefined) when none does.    *)
(***************************************************************************)
NoLine == <<"undefined">>

\* findLast in place of find: the last line that starts with the marker.
RECURSIVE findLast(_)
findLast(lines) ==
    IF lines = <<>> THEN NoLine
    ELSE IF StartsWith(Last(lines), <<MARK>>) THEN Last(lines)
    ELSE findLast(Front(lines))

RECURSIVE find(_)
find(lines) ==
    IF lines = <<>> THEN NoLine
    ELSE IF StartsWith(Head(lines), <<MARK>>) THEN Head(lines)
    ELSE find(Tail(lines))

DataLine(chunk) == find(split(trim(chunk), <<NL>>))

(***************************************************************************)
(* line.replace(/^data:\s*/, '')                                           *)
(***************************************************************************)
Payload(line) == trimStart(Tail(line))

(***************************************************************************)
(* JSON.parse(payload): white space around the value is allowed; anything  *)
(* that is not the text of a JSON value throws.                            *)
(***************************************************************************)
JsonValid(payload) ==
    trim(payload) \in {<<STATUS_A, EACUTE, STATUS_B>>, <<FINAL_TXT>>}

JsonParse(payload) ==
    IF trim(payload) = <<FINAL_TXT>> THEN FinalEvent ELSE StatusEvent

\* The for loop with the try around it instead of inside it: a payload that
\* does not parse ends the loop.
RECURSIVE ProcessPartsParseErrorEndsLoop(_)
ProcessPartsParseErrorEndsLoop(parts) ==
    IF parts = <<>> THEN <<>>
    ELSE LET line == DataLine(Head(parts)) IN
         IF line = NoLine THEN ProcessPartsParseErrorEndsLoop(Tail(parts))
         ELSE IF Payload(line) = <<SENTINEL>> THEN <<DoneEvent>>
         ELSE IF JsonValid(Payload(line))
              THEN <<JsonParse(Payload(line))>> \o ProcessPartsParseErrorEndsLoop(Tail(parts))
              ELSE <<>>

\* The for loop with break in place of continue: a frame without a data line
\* ends the loop.
RECURSIVE ProcessPartsNoLineEndsLoop(_)
ProcessPartsNoLineEndsLoop(parts) ==
    IF parts = <<>> THEN <<>>
    ELSE LET line == DataLine(Head(parts)) IN
         IF line = NoLine THEN <<>>
         ELSE IF Payload(line) = <<SENTINEL>> THEN <<DoneEvent>>
         ELSE IF JsonValid(Payload(line))
              THEN <<JsonParse(Payload(line))>> \o ProcessPartsNoLineEndsLoop(Tail(parts))
              ELSE ProcessPartsNoLineEndsLoop(Tail(parts))

\* The for loop with continue in place of break: the frames after the
\* sentinel are processed too.
RECURSIVE ProcessPartsSentinelGoesOn(_)
ProcessPartsSentinelGoesOn(parts) ==
    IF parts = <<>> THEN <<>>
    ELSE LET line == DataLine(Head(parts)) IN
         IF line = NoLine THEN ProcessPartsSentinelGoesOn(Tail(parts))
         ELSE IF Payload(line) = <<SENTINEL>>
              THEN <<DoneEvent>> \o ProcessPartsSentinelGoesOn(Tail(parts))
         ELSE IF JsonValid(Payload(line))
              THEN <<JsonParse(Payload(line))>> \o ProcessPartsSentinelGoesOn(Tail(parts))
              ELSE ProcessPartsSentinelGoesOn(Tail(parts))

(***************************************************************************)
(* The body of the for loop over the complete frames of one read (lines    *)
(* 123-135): the events it appends, in order.  A frame without a data line *)
(* is skipped, the sentinel appends the done event and leaves the for      *)
(* loop, a payload that does not parse is dropped.                         *)
(***************************************************************************)
RECURSIVE ProcessParts(_)
ProcessParts(parts) ==
    IF parts = <<>> THEN <<>>
    ELSE LET line == DataLine(Head(parts)) IN
         IF line = NoLine THEN ProcessParts(Tail(parts))
         ELSE IF Payload(line) = <<SENTINEL>> THEN <<DoneEvent>>
         ELSE IF JsonValid(Payload(line))
              THEN <<JsonParse(Payload(line))>> \o ProcessParts(Tail(parts))
              ELSE ProcessParts(Tail(parts))

(***************************************************************************)
(* What the server sends: up to MaxFrames frames, each closed by a blank   *)
(* line, then possibly text that no blank line closes.  The server makes   *)
(* up the stream as it goes: a stream is the sequence of the kinds of      *)
(* frame it has begun to send.                                             *)
(***************************************************************************)
FrameKinds == {"status", "done", "bad", "comment", "multi"}

Unclosed == "unclosed"

FrameBytes(kind) ==
    CASE kind = "status" -> <<MARK, SP, STATUS_A, LEAD, CONT, STATUS_B>>
      [] kind = "done" -> <<MARK, SP, SENTINEL>>
      [] kind = "bad" -> <<MARK, SP, BAD_TXT>>
      [] kind = "comment" -> <<COMMENT>>
      [] kind = "multi" -> <<EVENT_LINE, NL, MARK, FINAL_TXT, NL, MARK, SP, SENTINEL>>

KindBytes(kind) ==
    IF kind = Unclosed THEN <<MARK, SP, FINAL_TXT>>
    ELSE FrameBytes(kind) \o <<NL, NL>>

RECURSIVE SeqsUpTo(_, _)
SeqsUpTo(S, n) ==
    IF n = 0 THEN {<<>>}
    ELSE LET shorter == SeqsUpTo(S, n - 1) IN
         shorter \cup {Append(s, x) : s \in shorter, x \in S}

IsFrame(kind) == kind \in FrameKinds

\* The ways the server can go on after the kinds it has begun to send: more
\* frames, up to MaxFrames in all, then possibly text that no blank line
\* closes, which can only be the end of the stream.
Continuations(kinds) ==
    IF kinds # <<>> /\ Last(kinds) = Unclosed THEN {<<>>}
    ELSE LET frames == SeqsUpTo(FrameKinds, MaxFrames - Len(kinds))
         IN frames \cup {Append(f, Unclosed) : f \in frames}

RECURSIVE StreamBytes(_)
StreamBytes(kinds) ==
    IF kinds = <<>> THEN <<>>
    ELSE KindBytes(Head(kinds)) \o StreamBytes(Tail(kinds))

Prompts == {<<>>, <<SP>>, <<"q">>}

(***************************************************************************)
(* What the /query endpoint answers: a status that is ok or not and a body *)
(* that is the text of a JSON object with a results array of up to         *)
(* MaxResults entries, of a JSON object without results, of the JSON value *)
(* null, or no JSON text at all.                                           *)
(***************************************************************************)
ResultEntries ==
    {[score |-> "0.92", content |-> "cats are great"],
     [score |-> "0.5", content |-> "dogs", title |-> "pets"]}

Bodies ==
    {[kind |-> "results", results |-> list] : list \in SeqsUpTo(ResultEntries, MaxResults)}
    \cup {[kind |-> "object"], [kind |-> "null"], [kind |-> "text"]}

Responses == {[ok |-> ok, body |-> body] : ok \in BOOLEAN, body \in Bodies}

NoResponse == [ok |-> FALSE, body |-> [kind |-> "none"]]

Queries == {<<>>, <<SP>>, <<"cats">>, <<"dogs">>}

(***************************************************************************)
(* State.  AgentBox: streaming, events (useState), abortRef and the signal *)
(* of the controller it holds, the position of startAgent (pc) and its     *)
(* locals buffer and held (the decoder's held-back bytes).  wire holds the  *)
(* bytes of the frame the server is in the middle of that are not yet      *)
(* read.  sent, delivered, ended and atStop record history: the kinds of   *)
(* frame the server has begun to send, the bytes read so far, how the last *)
(* run left its try block, the event list when stop was asked.  running    *)
(* counts the startAgent runs that have passed line 97 and not yet their   *)
(* finally block; appended holds the events that the latest of them has    *)
(* appended; cleared holds the event list that the latest start emptied,   *)
(* until the response to its request arrives.                              *)
(***************************************************************************)
VARIABLES streaming, events, abortRef, aborted, pc, buffer, held, wire,
          sent, delivered, ended, atStop, running, appended, cleared

agentVars == <<streaming, events, abortRef, aborted, pc, buffer, held, wire,
               sent, delivered, ended, atStop, running, appended, cleared>>

(***************************************************************************)
(* App: uploads (useState) and the handleFiles calls that are suspended at *)
(* an await.  A File object is a number, given out in submission order.    *)
(* created, batch, issued and result record history: how many File objects *)
(* were submitted, the handleFiles call each came in with, the /ingest     *)
(* requests in the order they were issued, how each request ended.         *)
(***************************************************************************)
VARIABLES uploads, calls, created, batch, issued, result

uploadVars == <<uploads, calls, created, batch, issued, result>>

(***************************************************************************)
(* App: queryLoading and results (useState), the position of runQuery      *)
(* (query) and its local res (response).  asked and outcome record         *)
(* history: the text of the last query and how the last runQuery left its  *)
(* try block.                                                              *)
(***************************************************************************)
VARIABLES queryLoading, results, query, response, asked, outcome

queryVars == <<queryLoading, results, query, response, asked, outcome>>

vars == <<agentVars, uploadVars, queryVars>>

Init ==
    /\ streaming = FALSE
    /\ events = <<>>
    /\ abortRef = "null"
    /\ aborted = FALSE
    /\ pc = "idle"
    /\ buffer = <<>>
    /\ held = <<>>
    /\ wire = <<>>
    /\ sent = <<>>
    /\ delivered = <<>>
    /\ ended = "none"
    /\ atStop = <<>>
    /\ running = 0
    /\ appended = <<>>
    /\ cleared = <<>>
    /\ uploads = <<>>
    /\ calls = {}
    /\ created = 0
    /\ batch = <<>>
    /\ issued = <<>>
    /\ result = <<>>
    /\ queryLoading = FALSE
    /\ results = <<>>
    /\ query = "idle"
    /\ response = NoResponse
    /\ asked = <<>>
    /\ outcome = "none"

\* startAgent reachable while a run is streaming: no test of the flag.
StartAgentWhileStreaming(prompt) ==
    /\ running >= 0
    /\ IF trim(prompt) = <<>>
       THEN UNCHANGED agentVars
       ELSE /\ events' = <<>>
            /\ streaming' = TRUE
            /\ abortRef' = "controller"
            /\ aborted' = FALSE
            /\ pc' = "fetch"
            /\ buffer' = <<>>
            /\ held' = <<>>
            /\ wire' = <<>>
            /\ sent' = <<>>
            /\ delivered' = <<>>
            /\ ended' = "none"
            /\ atStop' = <<>>
            /\ running' = running + 1
            /\ appended' = <<>>
            /\ cleared' = events
    /\ UNCHANGED <<uploadVars, queryVars>>

\* startAgent keeping the abort controller of the run before.
StartAgentKeepsController(prompt) ==
    /\ ~streaming
    /\ IF trim(prompt) = <<>>
       THEN UNCHANGED agentVars
       ELSE /\ events' = <<>>
            /\ streaming' = TRUE
            /\ abortRef' = "controller"
            /\ aborted' = aborted
            /\ pc' = "fetch"
            /\ buffer' = <<>>
            /\ held' = <<>>
            /\ wire' = <<>>
            /\ sent' = <<>>
            /\ delivered' = <<>>
            /\ ended' = "none"
            /\ atStop' = <<>>
            /\ running' = running + 1
            /\ appended' = <<>>
            /\ cleared' = events
    /\ UNCHANGED <<uploadVars, queryVars>>

\* startAgent without line 96: the event list is not emptied.
StartAgentKeepsEvents(prompt) ==
    /\ ~streaming
    /\ IF trim(prompt) = <<>>
       THEN UNCHANGED agentVars
       ELSE /\ events' = events
            /\ streaming' = TRUE
            /\ abortRef' = "controller"
            /\ aborted' = FALSE
            /\ pc' = "fetch"
            /\ buffer' = <<>>
            /\ held' = <<>>
            /\ wire' = <<>>
            /\ sent' = <<>>
            /\ delivered' = <<>>
            /\ ended' = "none"
            /\ atStop' = <<>>
            /\ running' = running + 1
            /\ appended' = <<>>
            /\ cleared' = events
    /\ UNCHANGED <<uploadVars, queryVars>>

(***************************************************************************)
(* startAgent up to its first await (lines 94-108).  The Run button is     *)
(* rendered only while streaming is false (lines 157-158).                 *)
(***************************************************************************)
StartAgent(prompt) ==
    /\ ~streaming
    /\ IF trim(prompt) = <<>>
       THEN UNCHANGED agentVars
       ELSE /\ events' = <<>>
            /\ streaming' = TRUE
            /\ abortRef' = "controller"
            /\ aborted' = FALSE
            /\ pc' = "fetch"
            /\ buffer' = <<>>
            /\ held' = <<>>
            /\ wire' = <<>>
            /\ sent' = <<>>
            /\ delivered' = <<>>
            /\ ended' = "none"
            /\ atStop' = <<>>
            /\ running' = running + 1
            /\ appended' = <<>>
            /\ cleared' = events
    /\ UNCHANGED <<uploadVars, queryVars>>

\* The catch block appending to the event list as it was when the run began.
CatchStaleEvents(message, how) ==
    /\ events' = <<ErrorEvent(message)>>
    /\ streaming' = FALSE
    /\ pc' = "idle"
    /\ ended' = how
    /\ running' = running - 1
    /\ appended' = Append(appended, ErrorEvent(message))
    /\ UNCHANGED <<cleared, abortRef, aborted, buffer, held, wire, sent, delivered, atStop>>
    /\ UNCHANGED <<uploadVars, queryVars>>

(***************************************************************************)
(* The catch and finally blocks (lines 137-141).                           *)
(***************************************************************************)
Catch(message, how) ==
    /\ events' = Append(events, ErrorEvent(message))
    /\ streaming' = FALSE
    /\ pc' = "idle"
    /\ ended' = how
    /\ running' = running - 1
    /\ appended' = Append(appended, ErrorEvent(message))
    /\ UNCHANGED <<cleared, abortRef, aborted, buffer, held, wire, sent, delivered, atStop>>
    /\ UNCHANGED <<uploadVars, queryVars>>

(***************************************************************************)
(* The fetch resolves with a response that can be streamed (lines 103-114).*)
(***************************************************************************)
FetchOk ==
    /\ pc = "fetch"
    /\ ~aborted
    /\ pc' = "read"
    /\ buffer' = <<>>
    /\ held' = <<>>
    /\ cleared' = <<>>
    /\ UNCHANGED <<streaming, events, abortRef, aborted, wire, sent, delivered, ended,
                   atStop, running, appended>>
    /\ UNCHANGED <<uploadVars, queryVars>>

\* A response that is not ok handled without the finally block.
FetchUnusableWithoutFinally ==
    /\ pc = "fetch"
    /\ ~aborted
    /\ events' = Append(events, ErrorEvent(StartFailedMessage))
    /\ pc' = "idle"
    /\ ended' = "unusable"
    /\ running' = running - 1
    /\ appended' = Append(appended, ErrorEvent(StartFailedMessage))
    /\ UNCHANGED <<cleared, streaming, abortRef, aborted, buffer, held, wire, sent,
                   delivered, atStop>>
    /\ UNCHANGED <<uploadVars, queryVars>>

(***************************************************************************)
(* The response is not ok or has no body: line 110 throws.                 *)
(***************************************************************************)
FetchUnusable ==
    /\ pc = "fetch"
    /\ ~aborted
    /\ Catch(StartFailedMessage, "unusable")

(***************************************************************************)
(* The fetch rejects: the request could not be sent.                       *)
(***************************************************************************)
FetchReject ==
    /\ pc = "fetch"
    /\ ~aborted
    /\ Catch(NetworkMessage, "fetchfail")

(***************************************************************************)
(* The await of line 103 or of line 117 rejects because the signal was     *)
(* aborted.                                                                *)
(***************************************************************************)
AbortObserved ==
    /\ pc \in {"fetch", "read"}
    /\ aborted
    /\ Catch(AbortMessage, "abort")

(***************************************************************************)
(* One iteration of the while loop with a chunk (lines 117-135).  The      *)
(* chunk is the first n bytes of what is left of the frame the server is   *)
(* in and of the frames it sends next (more); it reaches into the last of  *)
(* these.                                                                  *)
(***************************************************************************)
ReadChunk ==
    /\ pc = "read"
    /\ ~aborted
    /\ \E more \in Continuations(sent) :
          LET ahead == wire \o StreamBytes(more)
              least == IF more = <<>> THEN 1
                       ELSE Len(wire) + Len(StreamBytes(Front(more))) + 1
          IN \E n \in least..Len(ahead) :
                LET value == SubSeq(ahead, 1, n)
                    decoded == decode(held, value)
                    parts == split(buffer \o decoded.text, <<NL, NL>>)
                IN /\ held' = decoded.held
                   /\ buffer' = Last(parts)
                   /\ events' = events \o ProcessParts(Front(parts))
                   /\ appended' = appended \o ProcessParts(Front(parts))
                   /\ wire' = Drop(ahead, n)
                   /\ sent' = sent \o more
                   /\ delivered' = delivered \o value
    /\ UNCHANGED <<cleared, streaming, abortRef, aborted, pc, ended, atStop, running>>
    /\ UNCHANGED <<uploadVars, queryVars>>

\* The end of the stream flushing the buffer: what is left in it is
\* processed as one more frame.
ReadDoneFlushes ==
    /\ pc = "read"
    /\ wire = <<>>
    /\ events' = events \o ProcessParts(<<buffer>>)
    /\ appended' = appended \o ProcessParts(<<buffer>>)
    /\ buffer' = <<>>
    /\ streaming' = FALSE
    /\ pc' = "idle"
    /\ ended' = "clean"
    /\ running' = running - 1
    /\ UNCHANGED <<cleared, abortRef, aborted, held, wire, sent, delivered, atStop>>
    /\ UNCHANGED <<uploadVars, queryVars>>

(***************************************************************************)
(* reader.read() reports done: line 118 leaves the loop, then finally.     *)
(* The server ends the stream after a frame or after text that no blank    *)
(* line closes.  A body that was already closed when the signal was        *)
(* aborted still reports done.                                             *)
(***************************************************************************)
ReadDone ==
    /\ pc = "read"
    /\ wire = <<>>
    /\ streaming' = FALSE
    /\ pc' = "idle"
    /\ ended' = "clean"
    /\ running' = running - 1
    /\ UNCHANGED <<cleared, events, abortRef, aborted, buffer, held, wire, sent, delivered, atStop,
                   appended>>
    /\ UNCHANGED <<uploadVars, queryVars>>

\* A failed read taken for the end of the stream: no error event.
ReadFailSilent ==
    /\ pc = "read"
    /\ ~aborted
    /\ streaming' = FALSE
    /\ pc' = "idle"
    /\ ended' = "readfail"
    /\ running' = running - 1
    /\ UNCHANGED <<cleared, events, abortRef, aborted, buffer, held, wire, sent, delivered, atStop,
                   appended>>
    /\ UNCHANGED <<uploadVars, queryVars>>

(***************************************************************************)
(* reader.read() rejects: the transport failed.                            *)
(***************************************************************************)
ReadFail ==
    /\ pc = "read"
    /\ ~aborted
    /\ Catch(NetworkMessage, "readfail")

(***************************************************************************)
(* stopAgent (lines 144-146).                                              *)
(***************************************************************************)
StopAgent ==
    /\ IF abortRef = "null"
       THEN UNCHANGED <<aborted, atStop>>
       ELSE /\ aborted' = TRUE
            /\ atStop' = IF aborted \/ pc = "idle" THEN atStop ELSE events
    /\ UNCHANGED <<streaming, events, abortRef, pc, buffer, held, wire, sent,
                   delivered, ended, running, appended, cleared>>
    /\ UNCHANGED <<uploadVars, queryVars>>

Next ==
    \/ \E prompt \in Prompts : StartAgent(prompt)
    \/ FetchOk
    \/ FetchUnusable
    \/ FetchReject
    \/ AbortObserved
    \/ ReadChunk
    \/ ReadDone
    \/ ReadFail
    \/ StopAgent

Spec == Init /\ [][Next]_vars

\* The status update written as remove-and-put-first instead of map.
SetStatusMovesToFront(prev, file, status) ==
    LET Other(u) == u.file # file
        Same(u) == u.file = file
    IN [k \in DOMAIN SelectSeq(prev, Same) |-> [file |-> file, status |-> status]]
       \o SelectSeq(prev, Other)

\* The status update without the test of the file: every item gets the status.
SetStatusAll(prev, file, status) ==
    [k \in DOMAIN prev |-> [prev[k] EXCEPT !.status = status]]

(***************************************************************************)
(* prev.map(u => u.file === item.file ? { ...u, status } : u)              *)
(***************************************************************************)
SetStatus(prev, file, status) ==
    [k \in DOMAIN prev |->
        IF prev[k].file = file THEN [prev[k] EXCEPT !.status = status] ELSE prev[k]]

(***************************************************************************)
(* files.map(f => ({ file: f, status: 'queued' })) (line 199)              *)
(***************************************************************************)
QueuedItems(files) == [k \in DOMAIN files |-> [file |-> files[k], status |-> "queued"]]

(***************************************************************************)
(* The top of one iteration of the for loop (lines 203-208): the item is   *)
(* marked uploading and its request is issued; the call then waits for the *)
(* response.                                                               *)
(***************************************************************************)
Issue(prev, call, k) ==
    /\ uploads' = SetStatus(prev, call.items[k], "uploading")
    /\ issued' = Append(issued, call.items[k])
    /\ calls' = (calls \ {call}) \cup {[call EXCEPT !.i = k, !.at = "fetch"]}

(***************************************************************************)
(* handleFiles up to its first await (lines 198-208).  The dropzone calls  *)
(* it with a non-empty array of fresh File objects (lines 13-21), also     *)
(* while an earlier call is suspended.                                     *)
(***************************************************************************)
handleFiles(n) ==
    /\ n >= 1
    /\ created + n <= MaxFiles
    /\ LET files == [k \in 1..n |-> created + k]
           call == [items |-> files, i |-> 0, at |-> "start"]
       IN /\ Issue(QueuedItems(files) \o uploads, call, 1)
          /\ batch' = batch \o [k \in 1..n |-> IF batch = <<>> THEN 1 ELSE Last(batch) + 1]
          /\ result' = result \o [k \in 1..n |-> "pending"]
          /\ created' = created + n
    /\ UNCHANGED <<agentVars, queryVars>>

\* The try around the for loop instead of inside it: a failed item ends the
\* call.
SettleErrorEndsCall(call, status, how) ==
    LET file == call.items[call.i]
        prev == SetStatus(uploads, file, status)
    IN /\ result' = [result EXCEPT ![file] = how]
       /\ IF call.i < Len(call.items) /\ status # "error"
          THEN Issue(prev, call, call.i + 1)
          ELSE /\ uploads' = prev
               /\ calls' = calls \ {call}
               /\ UNCHANGED issued
       /\ UNCHANGED <<created, batch>>
       /\ UNCHANGED <<agentVars, queryVars>>

(***************************************************************************)
(* The end of one iteration (lines 211-215): the item gets its final       *)
(* status, then the loop goes on to the next item or the call returns.     *)
(***************************************************************************)
Settle(call, status, how) ==
    LET file == call.items[call.i]
        prev == SetStatus(uploads, file, status)
    IN /\ result' = [result EXCEPT ![file] = how]
       /\ IF call.i < Len(call.items)
          THEN Issue(prev, call, call.i + 1)
          ELSE /\ uploads' = prev
               /\ calls' = calls \ {call}
               /\ UNCHANGED issued
       /\ UNCHANGED <<created, batch>>
       /\ UNCHANGED <<agentVars, queryVars>>

(***************************************************************************)
(* The fetch of line 208 resolves with an ok response: the call goes on to *)
(* await res.json() (line 210).                                            *)
(***************************************************************************)
IngestOk(call) ==
    /\ call \in calls
    /\ call.at = "fetch"
    /\ calls' = (calls \ {call}) \cup {[call EXCEPT !.at = "json"]}
    /\ UNCHANGED <<uploads, created, batch, issued, result>>
    /\ UNCHANGED <<agentVars, queryVars>>

(***************************************************************************)
(* The fetch resolves with a response that is not ok: line 209 throws.     *)
(***************************************************************************)
IngestNotOk(call) ==
    /\ call \in calls
    /\ call.at = "fetch"
    /\ Settle(call, "error", "not ok")

(***************************************************************************)
(* The fetch rejects: the request could not be sent.                       *)
(***************************************************************************)
IngestReject(call) ==
    /\ call \in calls
    /\ call.at = "fetch"
    /\ Settle(call, "error", "rejected")

(***************************************************************************)
(* res.json() resolves (line 210), then line 211.                          *)
(***************************************************************************)
IngestJson(call) ==
    /\ call \in calls
    /\ call.at = "json"
    /\ Settle(call, "done", "ok")

(***************************************************************************)
(* res.json() rejects: the body of the ok response is not JSON.            *)
(***************************************************************************)
IngestJsonReject(call) ==
    /\ call \in calls
    /\ call.at = "json"
    /\ Settle(call, "error", "bad body")

UploadNext ==
    \/ \E n \in 1..MaxFiles : handleFiles(n)
    \/ \E call \in calls : IngestOk(call)
    \/ \E call \in calls : IngestNotOk(call)
    \/ \E call \in calls : IngestReject(call)
    \/ \E call \in calls : IngestJson(call)
    \/ \E call \in calls : IngestJsonReject(call)

UploadSpec == Init /\ [][UploadNext]_vars

(***************************************************************************)
(* The response to an issued request, or the body of an ok response,       *)
(* arrives: the promise that a suspended handleFiles call awaits settles.  *)
(* Every issued request resolving in the end is the fairness of this step. *)
(***************************************************************************)
Resolve ==
    \E call \in calls :
        \/ IngestOk(call)
        \/ IngestNotOk(call)
        \/ IngestReject(call)
        \/ IngestJson(call)
        \/ IngestJsonReject(call)

UploadFairSpec == Init /\ [][UploadNext]_vars /\ WF_vars(Resolve)

(***************************************************************************)
(* The catch and finally blocks of runQuery (lines 229-233): the error is  *)
(* logged, results stay as line 220 left them.                             *)
(***************************************************************************)
QueryCatch(how) ==
    /\ queryLoading' = FALSE
    /\ query' = "idle"
    /\ outcome' = how
    /\ UNCHANGED <<results, response, asked>>
    /\ UNCHANGED <<agentVars, uploadVars>>

(***************************************************************************)
(* QueryBox.handleAsk (lines 55-58) and runQuery up to its first await     *)
(* (lines 218-226).  The Ask button is disabled while queryLoading is true *)
(* (line 71).                                                              *)
(***************************************************************************)
runQuery(q) ==
    /\ ~queryLoading
    /\ IF trim(q) = <<>>
       THEN UNCHANGED queryVars
       ELSE /\ queryLoading' = TRUE
            /\ results' = <<>>
            /\ query' = "fetch"
            /\ response' = NoResponse
            /\ asked' = q
            /\ outcome' = "none"
    /\ UNCHANGED <<agentVars, uploadVars>>

(***************************************************************************)
(* The fetch of line 222 rejects: the request could not be sent.           *)
(***************************************************************************)
QueryReject ==
    /\ query = "fetch"
    /\ QueryCatch("rejected")

(***************************************************************************)
(* The fetch resolves; runQuery goes on to await res.json() (line 227)     *)
(* whatever the status is.                                                 *)
(***************************************************************************)
QueryRespond(res) ==
    /\ query = "fetch"
    /\ response' = res
    /\ query' = "json"
    /\ UNCHANGED <<queryLoading, results, asked, outcome>>
    /\ UNCHANGED <<agentVars, uploadVars>>

(***************************************************************************)
(* res.json() rejects: the body is not JSON text.                          *)
(***************************************************************************)
QueryJsonReject ==
    /\ query = "json"
    /\ response.body.kind = "text"
    /\ QueryCatch("bad body")

(***************************************************************************)
(* res.json() resolves with null: data.results throws a TypeError (line    *)
(* 228).                                                                   *)
(***************************************************************************)
QueryJsonNull ==
    /\ query = "json"
    /\ response.body.kind = "null"
    /\ QueryCatch("no object")

(***************************************************************************)
(* res.json() resolves with an object: setResults(data.results || [])      *)
(* (line 228), then finally.                                               *)
(***************************************************************************)
QueryJson ==
    /\ query = "json"
    /\ response.body.kind \in {"results", "object"}
    /\ results' = IF response.body.kind = "results" THEN response.body.results ELSE <<>>
    /\ queryLoading' = FALSE
    /\ query' = "idle"
    /\ outcome' = "set"
    /\ UNCHANGED <<response, asked>>
    /\ UNCHANGED <<agentVars, uploadVars>>

QueryNext ==
    \/ \E q \in Queries : runQuery(q)
    \/ QueryReject
    \/ \E res \in Responses : QueryRespond(res)
    \/ QueryJsonReject
    \/ QueryJsonNull
    \/ QueryJson

QuerySpec == Init /\ [][QueryNext]_vars

(***************************************************************************)
(* Vocabulary of the properties of the agent stream.                       *)
(***************************************************************************)
HasDone(evs) == \E k \in 1..Len(evs) : evs[k] = DoneEvent

\* The complete frames of the bytes, taken as one text.
CompleteFrames(bytes) == Front(split(DecodeText(<<>>, bytes), <<NL, NL>>))

\* The event list when the bytes arrive as one single chunk.
WholeEvents(bytes) == ProcessParts(CompleteFrames(bytes))

\* The kinds of the frames whose closing blank line has been read.
Processed == SubSeq(sent, 1, Len(CompleteFrames(delivered)))

\* The event a frame of each kind stands for.
KindEvents(kind) ==
    CASE kind = "status" -> <<StatusEvent>>
      [] kind = "multi" -> <<FinalEvent>>
      [] kind = "done" -> <<DoneEvent>>
      [] OTHER -> <<>>

RECURSIVE ExpectedEvents(_)
ExpectedEvents(kinds) ==
    IF kinds = <<>> THEN <<>>
    ELSE KindEvents(Head(kinds)) \o ExpectedEvents(Tail(kinds))

\* No frame follows a sentinel frame.
SentinelLast(kinds) == \A k \in 1..(Len(kinds) - 1) : kinds[k] # "done"

IsBad(kind) == kind = "bad"
NotBad(kind) == ~IsBad(kind)

\* C1: once a done event is in the event list, a further iteration of the
\* read loop of the same run appends nothing.
C1_SentinelCutoff ==
    [][(pc = "read" /\ pc' = "read" /\ HasDone(events)) => events' = events]_vars

\* C2: after a clean end of the stream the event list is the one that the
\* whole stream delivered as a single chunk gives, however it was cut.
C2_SplitInvariance ==
    ended = "clean" => events = WholeEvents(delivered)

\* C3 as stated: after a cancellation in the middle of the stream the event
\* list holds the events of the processed frames and nothing else, and the
\* session no longer streams.
C3_CancelLeavesFrameEventsOnly ==
    (ended = "abort" /\ delivered # <<>>) => (~streaming /\ events = atStop)

\* C3 as amended: after a cancellation the event list is the list as it stood
\* when stop was asked (the events of frames 1..M, in order; exactly one event
\* per frame kind when no frame follows a sentinel) followed by exactly one
\* error event, and the session no longer streams.
C3_CancelKeepsEventsThenError ==
    ended = "abort" =>
        /\ ~streaming
        /\ pc = "idle"
        /\ events = Append(atStop, ErrorEvent(AbortMessage))
        /\ SentinelLast(Processed) => atStop = ExpectedEvents(Processed)

C3_Witness ==
    /\ ended = "abort"
    /\ Len(sent) = 3
    /\ Len(Processed) = 2
    /\ Len(atStop) = 2
    /\ wire # <<>>

\* A frame with a data line whose payload is neither the sentinel nor JSON.
Malformed(part) ==
    LET line == DataLine(part) IN
    /\ line # NoLine
    /\ Payload(line) # <<SENTINEL>>
    /\ ~JsonValid(Payload(line))

NotMalformed(part) == ~Malformed(part)

\* n >= 0 frames with a JSON object as payload, then the sentinel frame.
ValidThenSentinel(kinds) ==
    /\ kinds # <<>>
    /\ Last(kinds) = "done"
    /\ \A k \in 1..(Len(kinds) - 1) : kinds[k] \in {"status", "multi"}

\* C6: a stream of frames with JSON objects closed by the sentinel frame,
\* read to its end in any chunks, leaves exactly the objects in frame order
\* followed by one done event.
C6_FrameOrder ==
    (/\ wire = <<>>
     /\ pc = "read" \/ ended = "clean"
     /\ ValidThenSentinel(sent))
    => events = ExpectedEvents(sent)

C6_Witness ==
    /\ ended = "clean"
    /\ sent = <<"status", "multi", "done">>
    /\ events = <<StatusEvent, FinalEvent, DoneEvent>>

\* C8: a malformed frame appends nothing, raises no error event and does not
\* end the run: the event list is the one of the frames read so far with the
\* malformed ones left out, and each iteration of the read loop appends what
\* it would append had its malformed frames been absent.
C8_DecodeIsolation ==
    [][(pc = "read" /\ delivered' # delivered) =>
         \A text \in {buffer \o DecodeText(held, Drop(delivered', Len(delivered)))} :
         \A parts \in {Front(split(text, <<NL, NL>>))} :
         \A read \in {delivered'} :
         \A processed \in {SubSeq(sent', 1, Len(CompleteFrames(read)))} :
            /\ events' = events \o ProcessParts(SelectSeq(parts, NotMalformed))
            /\ SentinelLast(processed) =>
                  events' = ExpectedEvents(SelectSeq(processed, NotBad))
            /\ pc' = "read"
            /\ streaming'
            /\ ended' = "none"]_vars

C8_Witness ==
    /\ pc = "read"
    /\ Processed = <<"bad", "status", "bad">>
    /\ events = <<StatusEvent>>

\* C9: when a read fails or the abort is observed at the await of a read,
\* exactly one error event is appended after the events so far, no chunk is
\* read in that step, and until a new run starts the event list and the
\* bytes read stay as they are.
C9_ReadFailureOneError ==
    /\ [][(pc = "read" /\ pc' = "idle" /\ ended' # "clean") =>
            /\ ended' \in {"readfail", "abort"}
            /\ events' = Append(events, ErrorEvent(IF ended' = "abort" THEN AbortMessage
                                                                    ELSE NetworkMessage))
            /\ delivered' = delivered
            /\ ~streaming']_vars
    /\ [][(ended \in {"readfail", "abort"} /\ pc = "idle" /\ pc' = "idle") =>
            (events' = events /\ delivered' = delivered)]_vars

C9_Witness ==
    /\ ended = "readfail"
    /\ Len(events) = 3
    /\ events[3] = ErrorEvent(NetworkMessage)
    /\ wire # <<>>

\* C10: a request that could not be sent or a response that is not ok or has
\* no body leaves exactly one error event, no byte read, and ends the run.
C10_UnusableResponse ==
    ended \in {"unusable", "fetchfail"} =>
        /\ events = <<ErrorEvent(IF ended = "unusable" THEN StartFailedMessage
                                                      ELSE NetworkMessage)>>
        /\ delivered = <<>>
        /\ sent = <<>>
        /\ ~streaming
        /\ pc = "idle"

C10_Witness ==
    /\ ended = "unusable"
    /\ events = <<ErrorEvent(StartFailedMessage)>>
    /\ ~streaming

\* C12: a clean end of the stream appends nothing and ends the run: no done
\* event stands in the list unless a sentinel frame was closed, and text that
\* no blank line closed, a whole data line with a JSON object included, stays
\* in the buffer and gives no event.
C12_CleanEndAppendsNothing ==
    [][(pc = "read" /\ ended' = "clean") =>
         \A processed \in {SubSeq(sent', 1, Len(CompleteFrames(delivered')))} :
            /\ events' = events
            /\ buffer' = buffer
            /\ pc' = "idle"
            /\ ~streaming'
            /\ (\A k \in DOMAIN processed : processed[k] # "done") => ~HasDone(events')
            /\ SentinelLast(processed) => events' = ExpectedEvents(processed)]_vars

C12_Witness ==
    /\ ended = "clean"
    /\ sent = <<"status", Unclosed>>
    /\ buffer = <<MARK, SP, FINAL_TXT>>
    /\ events = <<StatusEvent>>

\* A frame none of whose lines begins with the data marker.
NoMarker(part) == DataLine(part) = NoLine

WithMarker(part) == ~NoMarker(part)

NotComment(kind) == kind # "comment"

\* C13: a frame none of whose lines begins with the marker appends nothing and
\* leaves the processing of the other frames as it is: each iteration of the
\* read loop appends what it would append had those frames been absent, and
\* the event list is the one of the frames read so far without them.
C13_NoMarkerNoEvent ==
    [][(pc = "read" /\ delivered' # delivered) =>
         \A text \in {buffer \o DecodeText(held, Drop(delivered', Len(delivered)))} :
         \A parts \in {Front(split(text, <<NL, NL>>))} :
         \A processed \in {SubSeq(sent', 1, Len(CompleteFrames(delivered')))} :
            /\ events' = events \o ProcessParts(SelectSeq(parts, WithMarker))
            /\ SentinelLast(processed) =>
                  events' = ExpectedEvents(SelectSeq(processed, NotComment))
            /\ pc' = "read"]_vars

C13_Witness ==
    /\ pc = "read"
    /\ Processed = <<"comment", "status", "comment">>
    /\ events = <<StatusEvent>>

\* A frame whose data line carries the sentinel.
IsSentinelFrame(part) ==
    /\ DataLine(part) # NoLine
    /\ Payload(DataLine(part)) = <<SENTINEL>>

\* C14: when the complete frames of one read hold a sentinel frame, the
\* iteration appends the events of the frames up to the first sentinel frame,
\* the done event last, and nothing for the frames after it; the buffer then
\* holds only the piece after the last blank line, so those frames are gone.
C14_FramesAfterSentinelDiscarded ==
    [][(pc = "read" /\ delivered' # delivered) =>
         \A text \in {buffer \o DecodeText(held, Drop(delivered', Len(delivered)))} :
         \A pieces \in {split(text, <<NL, NL>>)} :
         \A k \in 1..(Len(pieces) - 1) :
            (/\ IsSentinelFrame(pieces[k])
             /\ \A j \in 1..(k - 1) : ~IsSentinelFrame(pieces[j]))
            => /\ events' = events \o ProcessParts(SubSeq(pieces, 1, k))
               /\ Last(events') = DoneEvent
               /\ buffer' = Last(pieces)]_vars

C14_Witness ==
    /\ pc = "read"
    /\ Processed = <<"status", "done", "status">>
    /\ events = <<StatusEvent, DoneEvent>>
    /\ buffer = <<>>
    /\ wire = <<>>

\* C16: an iteration of the read loop appends at most one event for each
\* complete frame it reads, and a frame with several data lines gives the
\* event of its first data line only.
C16_OneEventPerFrame ==
    [][(pc = "read" /\ delivered' # delivered) =>
         \A text \in {buffer \o DecodeText(held, Drop(delivered', Len(delivered)))} :
         \A parts \in {Front(split(text, <<NL, NL>>))} :
         \A processed \in {SubSeq(sent', 1, Len(CompleteFrames(delivered')))} :
            /\ Len(events') <= Len(events) + Len(parts)
            /\ Len(events') <= Len(processed)
            /\ SentinelLast(processed) => events' = ExpectedEvents(processed)
            /\ (processed # <<>> /\ Last(processed) = "multi" /\ parts # <<>>
                  /\ SentinelLast(processed))
                 => Last(events') = FinalEvent]_vars

C16_Witness ==
    /\ pc = "read"
    /\ Processed = <<"multi", "status", "multi">>
    /\ events = <<FinalEvent, StatusEvent, FinalEvent>>

(***************************************************************************)
(* Vocabulary of the properties of the upload pipeline.                    *)
(***************************************************************************)
Files == 1..created

StatusOf(file) ==
    uploads[CHOOSE k \in DOMAIN uploads : uploads[k].file = file].status

WasIssued(file) == \E k \in DOMAIN issued : issued[k] = file

IssuedAt(file) == CHOOSE k \in DOMAIN issued : issued[k] = file

\* The requests that were issued and whose fetch has not resolved.
InFlight == {call \in calls : call.at = "fetch"}

\* The file is still ahead of, or at, the loop of a suspended call.
Awaited(file) ==
    \E call \in calls : \E k \in call.i..Len(call.items) : call.items[k] = file

\* C4: at most one /ingest request is in flight in every reachable state.
C4_OneRequestInFlight == Cardinality(InFlight) <= 1

\* C5: within one handleFiles call the requests are issued in submission
\* order, each after the one before it has ended; an item ends done when its
\* own request succeeds and error when its own request fails, whatever the
\* other requests did; and no item is given up before its request was made.
C5_OrderAndIsolation ==
    \A f \in Files :
        /\ result[f] = "ok" => StatusOf(f) = "done"
        /\ result[f] \in {"not ok", "rejected", "bad body"} => StatusOf(f) = "error"
        /\ result[f] = "pending" => Awaited(f)
        /\ \A g \in Files :
              (f < g /\ batch[f] = batch[g] /\ WasIssued(g)) =>
                  /\ WasIssued(f)
                  /\ IssuedAt(f) < IssuedAt(g)
                  /\ result[f] # "pending"

C5_Witness ==
    /\ calls = {}
    /\ batch = <<1, 1, 1>>
    /\ issued = <<1, 2, 3>>
    /\ result = <<"ok", "rejected", "ok">>
    /\ uploads = <<[file |-> 1, status |-> "done"], [file |-> 2, status |-> "error"],
                   [file |-> 3, status |-> "done"]>>

\* C7 as stated: the uploads list holds the items in submission order.
C7_SubmissionOrder ==
    \A i, j \in DOMAIN uploads : i < j => uploads[i].file < uploads[j].file

\* C7 as amended: the uploads list holds every submitted item once; the items
\* of one handleFiles call are together and in submission order, the items of
\* a later call come before the items of every earlier call, and status
\* updates never reorder the list.
C7_NewestCallFirst ==
    /\ Len(uploads) = created
    /\ \A i, j \in DOMAIN uploads :
          i < j =>
              IF batch[uploads[i].file] = batch[uploads[j].file]
              THEN uploads[i].file < uploads[j].file
              ELSE batch[uploads[i].file] > batch[uploads[j].file]

C7_Witness ==
    /\ Len(uploads) = 4
    /\ [k \in 1..4 |-> uploads[k].file] = <<3, 4, 1, 2>>
    /\ uploads[3].status = "done"
    /\ uploads[1].status = "error"

(***************************************************************************)
(* Vocabulary of the properties of the query.                              *)
(***************************************************************************)
\* The last /query request failed: it could not be sent, its response was
\* not ok, or its body could not be parsed.
QueryFailed ==
    /\ query = "idle"
    /\ \/ outcome \in {"rejected", "bad body", "no object"}
       \/ outcome = "set" /\ ~response.ok

\* C11: after a runQuery whose request failed (transport failure, response
\* that is not ok, body that cannot be parsed) results is empty and
\* queryLoading is false.
C11_QueryFailureEmpty ==
    QueryFailed => (results = <<>> /\ ~queryLoading)

(***************************************************************************)
(* Vocabulary of the lifecycle of an upload item.                          *)
(***************************************************************************)
StatusIn(list, file) ==
    list[CHOOSE k \in DOMAIN list : list[k].file = file].status

Count(seq, x) == Cardinality({k \in DOMAIN seq : seq[k] = x})

Final == {"done", "error"}

\* The statuses an item may have one step after having the status.
After(status) ==
    CASE status = "queued" -> {"queued", "uploading"}
      [] status = "uploading" -> {"uploading", "done", "error"}
      [] status = "done" -> {"done"}
      [] status = "error" -> {"error"}

\* C15: every submitted file has one item; its request is issued at most
\* once, exactly once as soon as the item has left queued; its status moves
\* queued -> uploading -> done or error and then stays; a step changes the
\* status of an item only when the request of that very item is issued or
\* ends.
C15_ItemLifecycle ==
    [][\A f \in 1..created' :
          /\ Count([k \in DOMAIN uploads' |-> uploads'[k].file], f) = 1
          /\ Count(issued', f) = (IF StatusIn(uploads', f) = "queued" THEN 0 ELSE 1)
          /\ StatusIn(uploads', f) \in Final <=> result'[f] # "pending"
          /\ IF f > created
             THEN StatusIn(uploads', f) \in {"queued", "uploading"}
             ELSE /\ StatusIn(uploads', f) \in After(StatusIn(uploads, f))
                  /\ StatusIn(uploads', f) # StatusIn(uploads, f) =>
                        \/ /\ StatusIn(uploads', f) = "uploading"
                           /\ issued' = Append(issued, f)
                        \/ /\ StatusIn(uploads', f) \in Final
                           /\ result[f] = "pending"
                           /\ result'[f] # "pending"]_vars

C15_Witness ==
    /\ batch = <<1, 1, 1, 2>>
    /\ issued = <<1, 4, 2>>
    /\ StatusOf(1) = "done"
    /\ StatusOf(2) = "uploading"
    /\ StatusOf(3) = "queued"
    /\ StatusOf(4) = "error"

\* C17: under the assumption that requests resolve, every submitted file
\* comes to have status done or error, whatever the other requests do and
\* however many handleFiles calls are made.
C17_UploadProgress ==
    \A f \in 1..MaxFiles :
        (f <= created) ~> (f <= created /\ StatusOf(f) \in Final)

C17_Witness ==
    /\ calls = {}
    /\ batch = <<1, 1, 2, 3>>
    /\ result = <<"not ok", "ok", "bad body", "ok">>
    /\ \A f \in Files : StatusOf(f) \in Final

(***************************************************************************)
(* Vocabulary of the sessions of AgentBox.                                 *)
(***************************************************************************)
\* C18: at most one startAgent run is between its request and its finally
\* block; streaming is true exactly while one is; and a run that has ended,
\* however it ended, has left streaming false.
C18_SingleActiveSession ==
    /\ running \in {0, 1}
    /\ streaming <=> running = 1
    /\ streaming <=> pc \in {"fetch", "read"}
    /\ ended \in {"clean", "unusable", "fetchfail", "readfail", "abort"} =>
          (~streaming /\ pc = "idle")
    /\ ended = "none" => (streaming \/ events = <<>>)

C18_Witness ==
    /\ ended = "abort"
    /\ ~streaming
    /\ running = 0
    /\ cleared # <<>>
    /\ Len(events) = 1

\* C19: stopAgent called while no run is active changes neither the event
\* list nor the streaming flag nor how the last run ended; the next start
\* begins with a signal that is not aborted, and a run ends as aborted only
\* when stop was asked during that run.
C19_StopOutsideSessionNoOp ==
    [][/\ (pc = "idle" /\ aborted' /\ ~aborted) =>
            /\ events' = events
            /\ streaming' = streaming
            /\ pc' = "idle"
            /\ ended' = ended
            /\ atStop' = atStop
       /\ (pc = "idle" /\ pc' # "idle") =>
            /\ ~aborted'
            /\ abortRef' = "controller"
       /\ (ended' = "abort" /\ ended # "abort") => (aborted /\ pc # "idle")]_vars

C19_Witness ==
    /\ ended = "readfail"
    /\ pc = "idle"
    /\ aborted
    /\ ~streaming
    /\ events = <<StatusEvent, ErrorEvent(NetworkMessage)>>

\* C20: the event list is exactly what the run started last has appended; a
\* start with a prompt that is not blank leaves the list empty before the
\* request is answered; a start with a blank prompt changes nothing.
C20_EventsOfLatestSession ==
    [][/\ events' = appended'
       /\ running' > running => (events' = <<>> /\ pc' = "fetch")
       /\ pc' = "fetch" => events' = <<>>
       /\ (\E prompt \in Prompts : trim(prompt) = <<>> /\ StartAgent(prompt)) =>
            UNCHANGED agentVars]_vars

C20_Witness ==
    /\ pc = "fetch"
    /\ cleared = <<StatusEvent, DoneEvent>>
    /\ events = <<>>

====
